---------------------------- MODULE Spec2Model ----------------------------
(***************************************************************************)
(* A model of src/main.py: the collateral-adjective pipeline               *)
(* (parse_species_table, resolve_refs, invert), the batched generator and  *)
(* the asyncio fan-out of main.                                            *)
(*                                                                         *)
(* A Python dict is an ordered mapping: a sequence of entries [k, v] with  *)
(* pairwise distinct keys, in insertion order.  A str that the code only   *)
(* compares is a TLA+ string; a str that the code searches or rewrites     *)
(* with a regular expression is a sequence of tokens (see Tokens below).   *)
(***************************************************************************)
EXTENDS Integers, Sequences, FiniteSets, TLC

VARIABLES
    \* resolve_refs
    heap,        \* the two dict objects: heap.arg is the caller's, heap.copy the deepcopy
    cas,         \* which object the local name cas is bound to ("none" before line 90)
    only_refs,   \* the items of the snapshot dict(cas) still to be visited
    rpc,         \* position in resolve_refs: "call", "loop", "done", "raised"
    resolved,    \* the returned mapping
    r_input,     \* the argument as it was when resolve_refs was called
    \* invert
    index, inv_i, inv_j, inv_result, ipc,
    \* parse_species_table
    table, ri, pairs, ppc, perr, plog,
    \* batched
    b_iterable, b_n, b_it, b_batches, bpc,
    \* main
    mpc, section, animal_to_cas_index, links_futures, links, pics_futures,
    pic_index, ca_to_animals_index, out_html, m_exc

resolveVars == <<heap, cas, only_refs, rpc, resolved, r_input>>
invertVars  == <<index, inv_i, inv_j, inv_result, ipc>>
parseVars   == <<table, ri, pairs, ppc, perr, plog>>
batchedVars == <<b_iterable, b_n, b_it, b_batches, bpc>>
mainVars    == <<mpc, section, animal_to_cas_index, links_futures, links,
                 pics_futures, pic_index, ca_to_animals_index, out_html, m_exc>>
vars == <<resolveVars, invertVars, parseVars, batchedVars, mainVars>>

\* what each function leaves alone: the state of the others
notResolve == <<invertVars, parseVars, batchedVars, mainVars>>
notInvert  == <<resolveVars, parseVars, batchedVars, mainVars>>
notParse   == <<resolveVars, invertVars, batchedVars, mainVars>>
notBatched == <<resolveVars, invertVars, parseVars, mainVars>>
notMain    == <<resolveVars, invertVars, parseVars, batchedVars>>

-----------------------------------------------------------------------------
(* Bounds of the model *)

MaxKeys == 3        \* keys of a mapping given to resolve_refs
MaxInvKeys == 2     \* keys of a mapping given to invert
MaxInvListLen == 2  \* length of a list in a mapping given to invert

KeyNames == <<"a", "b", "c", "d", "e">>

Min(S) == CHOOSE x \in S : \A y \in S : x <= y
Max(S) == CHOOSE x \in S : \A y \in S : x >= y

RECURSIVE ConcatRange(_, _, _)
ConcatRange(ss, lo, hi) ==
    IF lo > hi THEN <<>>
    ELSE IF lo = hi THEN ss[lo]
    ELSE LET mid == (lo + hi) \div 2
         IN ConcatRange(ss, lo, mid) \o ConcatRange(ss, mid + 1, hi)
\* the sequences of ss one after the other
Concat(ss) == ConcatRange(ss, 1, Len(ss))

Count(s, x) == Cardinality({i \in 1..Len(s) : s[i] = x})

-----------------------------------------------------------------------------
(* dict: an ordered mapping *)

DictKeys(m) == {m[i].k : i \in 1..Len(m)}
HasKey(m, k) == k \in DictKeys(m)
KeyIndex(m, k) == CHOOSE i \in 1..Len(m) : m[i].k = k
\* m[k]
GetItem(m, k) == m[KeyIndex(m, k)].v
\* m[k] = v: an existing key keeps its position, a new key is appended
SetItem(m, k, v) ==
    IF HasKey(m, k)
    THEN LET i == KeyIndex(m, k)
         IN SubSeq(m, 1, i - 1) \o <<[k |-> k, v |-> v]>> \o SubSeq(m, i + 1, Len(m))
    ELSE Append(m, [k |-> k, v |-> v])
\* del m[k]
DelItem(m, k) == SelectSeq(m, LAMBDA e : e.k # k)
IsDict(m) == \A i, j \in 1..Len(m) : m[i].k = m[j].k => i = j

\* dict(pairs): the last value of a repeated key wins, at the key's first position
DictOf(ps) ==
    LET first == SelectSeq([i \in 1..Len(ps) |-> i],
                           LAMBDA i : \A j \in 1..i - 1 : ps[j].k # ps[i].k)
        last(k) == Max({j \in 1..Len(ps) : ps[j].k = k})
    IN [n \in 1..Len(first) |-> [k |-> ps[first[n]].k, v |-> ps[last(ps[first[n]].k)].v]]

-----------------------------------------------------------------------------
(* Ref, and the values of an unresolved mapping: list[str] | Ref *)

Ref(referral) == [isRef |-> TRUE, referral |-> referral, list |-> <<>>]
CAs(list) == [isRef |-> FALSE, referral |-> "", list |-> list]

-----------------------------------------------------------------------------
(* resolve_refs (src/main.py 81-103) *)

ResolveKeys == {KeyNames[i] : i \in 1..MaxKeys}
\* a referral names a key of the table or a row that does not exist
Referrals == ResolveKeys \cup {"missing"}
ResolveValues == {CAs(<<"x">>), CAs(<<"y">>)} \cup {Ref(r) : r \in Referrals}
\* every dict[str, list[str] | Ref] with at most MaxKeys keys, in every key order
Unresolved ==
    {m \in UNION {[1..n -> [k : ResolveKeys, v : ResolveValues]] : n \in 0..MaxKeys} :
        IsDict(m)}

\* (cas = has_unresolved: cas is the caller's object)
AliasedCopy == "arg"
\* line 90: cas = copy.deepcopy(has_unresolved) binds cas to a new object
DeepCopy == "copy"

\* line 91: filter(lambda x: isinstance(x[1], Ref), dict(cas).items())
OnlyRefs(m) == SelectSeq(m, LAMBDA e : e.v.isRef)

\* (cas[k] = cas[k])
SubstitutedSelf(m, e) == GetItem(m, e.k)
\* line 95: the value stored at cas[k]
Substituted(m, e) == GetItem(m, e.v.referral)

\* (except KeyError: pass)
KeptOnKeyError(m, k) == m
\* line 100: del cas[k]
Dropped(m, k) == DelItem(m, k)

\* lines 93-100: one iteration of the loop on the dict cas
ResolveOne(m, e) ==
    IF HasKey(m, e.v.referral)
    THEN SetItem(m, e.k, Substituted(m, e))
    ELSE Dropped(m, e.k)

\* lines 92-100 run to the end of only_refs
RECURSIVE ResolveLoop(_, _)
ResolveLoop(m, refs) ==
    IF refs = <<>> THEN m ELSE ResolveLoop(ResolveOne(m, Head(refs)), Tail(refs))

\* the value resolve_refs returns
resolve_refs(m) == ResolveLoop(m, OnlyRefs(m))

IdleResolve ==
    /\ heap = [arg |-> <<>>, copy |-> <<>>]
    /\ cas = "none"
    /\ only_refs = <<>>
    /\ rpc = "idle"
    /\ resolved = <<>>
    /\ r_input = <<>>

InitResolve ==
    /\ \E m \in Unresolved :
        /\ heap = [arg |-> m, copy |-> <<>>]
        /\ r_input = m
    /\ cas = "none"
    /\ only_refs = <<>>
    /\ rpc = "call"
    /\ resolved = <<>>

\* lines 90-91
ResolveCopy ==
    /\ rpc = "call"
    /\ cas' = DeepCopy
    /\ heap' = [heap EXCEPT !.copy = heap.arg]
    /\ only_refs' = OnlyRefs(heap.arg)
    /\ rpc' = "loop"
    /\ UNCHANGED <<resolved, r_input>>
    /\ UNCHANGED notResolve

\* lines 92-95: cas[v.referral] is found
ResolveSubstitute ==
    /\ rpc = "loop"
    /\ only_refs # <<>>
    /\ LET e == Head(only_refs)
       IN /\ HasKey(heap[cas], e.v.referral)
          /\ heap' = [heap EXCEPT ![cas] = ResolveOne(heap[cas], e)]
    /\ only_refs' = Tail(only_refs)
    /\ UNCHANGED <<cas, rpc, resolved, r_input>>
    /\ UNCHANGED notResolve

\* lines 92-100: cas[v.referral] raises KeyError; del cas[k] raises it again,
\* uncaught, when k is no key of cas
ResolveDrop ==
    /\ rpc = "loop"
    /\ only_refs # <<>>
    /\ LET e == Head(only_refs)
       IN /\ ~HasKey(heap[cas], e.v.referral)
          /\ IF HasKey(heap[cas], e.k)
             THEN /\ heap' = [heap EXCEPT ![cas] = ResolveOne(heap[cas], e)]
                  /\ rpc' = "loop"
             ELSE /\ heap' = heap
                  /\ rpc' = "raised"
    /\ only_refs' = Tail(only_refs)
    /\ UNCHANGED <<cas, resolved, r_input>>
    /\ UNCHANGED notResolve

\* line 103
ResolveReturn ==
    /\ rpc = "loop"
    /\ only_refs = <<>>
    /\ resolved' = heap[cas]
    /\ rpc' = "done"
    /\ UNCHANGED <<heap, cas, only_refs, r_input>>
    /\ UNCHANGED notResolve

-----------------------------------------------------------------------------
(* invert (src/main.py 65-78) *)

InvertValues == {"x", "y"}
\* the values of the index: the lists, and a Ref that resolve_refs has left
InvertLists ==
    {CAs(l) : l \in UNION {[1..n -> InvertValues] : n \in 0..MaxInvListLen}}
    \cup {Ref("a")}
\* every index with at most MaxInvKeys keys; invert never looks into a key, so
\* the keys are taken in the order of KeyNames
InvertInputs ==
    UNION {{[i \in 1..n |-> [k |-> KeyNames[i], v |-> ls[i]]] :
              ls \in [1..n -> InvertLists]} : n \in 0..MaxInvKeys}

\* (result.setdefault(u, []).insert(0, t))
SetDefaultPrepend(result, u, t) ==
    IF HasKey(result, u)
    THEN SetItem(result, u, <<t>> \o GetItem(result, u))
    ELSE Append(result, [k |-> u, v |-> <<t>>])
\* line 77: result.setdefault(u, []).append(t)
SetDefaultAppend(result, u, t) ==
    IF HasKey(result, u)
    THEN SetItem(result, u, Append(GetItem(result, u), t))
    ELSE Append(result, [k |-> u, v |-> <<t>>])

IdleInvert ==
    /\ index = <<>>
    /\ inv_i = 0
    /\ inv_j = 0
    /\ inv_result = <<>>
    /\ ipc = "idle"

\* line 74
InitInvert ==
    /\ index \in InvertInputs
    /\ inv_i = 1
    /\ inv_j = 1
    /\ inv_result = <<>>
    /\ ipc = "loop"

\* lines 76-77: the next u of us
InvertAppend ==
    /\ ipc = "loop"
    /\ inv_i <= Len(index)
    /\ ~index[inv_i].v.isRef
    /\ inv_j <= Len(index[inv_i].v.list)
    /\ inv_result' = SetDefaultAppend(inv_result, index[inv_i].v.list[inv_j], index[inv_i].k)
    /\ inv_j' = inv_j + 1
    /\ UNCHANGED <<index, inv_i, ipc>>
    /\ UNCHANGED notInvert

\* line 75: us is exhausted, the next item of index
InvertNextKey ==
    /\ ipc = "loop"
    /\ inv_i <= Len(index)
    /\ ~index[inv_i].v.isRef
    /\ inv_j > Len(index[inv_i].v.list)
    /\ inv_i' = inv_i + 1
    /\ inv_j' = 1
    /\ UNCHANGED <<index, inv_result, ipc>>
    /\ UNCHANGED notInvert

\* line 76: us is a Ref, which "for u in us" cannot iterate: TypeError
InvertTypeError ==
    /\ ipc = "loop"
    /\ inv_i <= Len(index)
    /\ index[inv_i].v.isRef
    /\ ipc' = "raised"
    /\ UNCHANGED <<index, inv_i, inv_j, inv_result>>
    /\ UNCHANGED notInvert

\* line 78
InvertReturn ==
    /\ ipc = "loop"
    /\ inv_i > Len(index)
    /\ ipc' = "done"
    /\ UNCHANGED <<index, inv_i, inv_j, inv_result>>
    /\ UNCHANGED notInvert

-----------------------------------------------------------------------------
(* Text that the code matches against a regular expression: a sequence of   *)
(* tokens.  " " and "\n" are whitespace, "(" and ")" the parentheses,       *)
(* "See " (in any case) the word followed by a space, anything else a word. *)

IsSpace(t) == t \in {" ", "\n"}
IsSee(t) == t \in {"See ", "see "}

RECURSIVE Join(_)
\* the str a token sequence stands for
Join(ts) == IF ts = <<>> THEN "" ELSE Head(ts) \o Join(Tail(ts))

Front(s) == SubSeq(s, 1, Len(s) - 1)
NoNewline(s) == \A i \in 1..Len(s) : s[i] # "\n"

\* "$" without re.MULTILINE: the end of the string, or just before a final "\n"
BeforeDollar(s) == IF s # <<>> /\ s[Len(s)] = "\n" THEN Front(s) ELSE s

\* line 147: re.search("See (.*?)\\)?$", text, re.I): the leftmost "See " after
\* which no "\n" stands before the "$"; group 1 is the shortest text up to an
\* optional last ")"
SeeSearch(text) ==
    LET after(i) == BeforeDollar(SubSeq(text, i + 1, Len(text)))
        starts == {i \in 1..Len(text) : IsSee(text[i]) /\ NoNewline(after(i))}
    IN IF starts = {} THEN [matched |-> FALSE, group1 |-> <<>>]
       ELSE LET body == after(Min(starts))
            IN [matched |-> TRUE,
                group1 |-> IF body # <<>> /\ body[Len(body)] = ")"
                           THEN Front(body) ELSE body]

RECURSIVE Strip(_)
\* str.strip()
Strip(s) ==
    IF s = <<>> THEN s
    ELSE IF IsSpace(Head(s)) THEN Strip(Tail(s))
    ELSE IF IsSpace(s[Len(s)]) THEN Strip(Front(s))
    ELSE s

RECURSIVE DropParens(_)
\* line 158: re.sub("\s+\\(.*\\)", "", adj): from the leftmost whitespace run that
\* a "(" follows, to the last ")" of that line; then again on what follows
DropParens(s) ==
    LET open(i) == Min({j \in i..Len(s) + 1 : j > Len(s) \/ ~IsSpace(s[j])})
        close(i) == {c \in open(i) + 1..Len(s) :
                        s[c] = ")" /\ NoNewline(SubSeq(s, open(i) + 1, c - 1))}
        starts == {i \in 1..Len(s) :
                      /\ IsSpace(s[i])
                      /\ open(i) <= Len(s)
                      /\ s[open(i)] = "("
                      /\ close(i) # {}}
    IN IF starts = {} THEN s
       ELSE LET i == Min(starts)
            IN SubSeq(s, 1, i - 1) \o DropParens(SubSeq(s, Max(close(i)) + 1, Len(s)))

-----------------------------------------------------------------------------
(* parse_species_table (src/main.py 106-160) *)

MaxRows == 2        \* rows (<tr>) of a table

\* A <td>: text is Tag.text of the name cell, link the text of its first <a>
\* ("" when it holds none); nodes are the strings of the adjective cell in
\* document order, each inside a <sup> or not.
NoCell == [text |-> <<>>, link |-> "", nodes |-> <<>>]
NameCell(text, link) == [text |-> text, link |-> link, nodes |-> <<>>]
AdjCell(nodes) == [text |-> <<>>, link |-> "", nodes |-> nodes]
Str(s) == [sup |-> FALSE, s |-> s]
Sup(s) == [sup |-> TRUE, s |-> s]

NameCells ==
    { NameCell(<<"Cat">>, "Cat"),
      NameCell(<<"Bull", " ", "(", "See ", "Cattle", ")">>, "Bull"),
      NameCell(<<"Ass", "\n", "see ", "Wild", " ", "ass", "\n">>, "Ass"),
      NameCell(<<"See ", "Ox", "\n", "Cow">>, "Cow"),
      NameCell(<<"See ", "Cattle">>, "") }

AdjCells ==
    { AdjCell(<<>>),
      AdjCell(<<Str(<<"?">>)>>),
      AdjCell(<<Str(<<"?">>), Sup(<<"[1]">>)>>),
      AdjCell(<<Str(<<"\n">>)>>),
      AdjCell(<<Str(<<"bovine">>), Sup(<<"[2]">>),
                Str(<<"\n", "cowish", " ", "(", "disputed", ")", " ">>)>>),
      AdjCell(<<Str(<<"feline", " ", "(", "a", ")", " ", "or", "\n", "(", "b", ")">>)>>) }

\* A <tr>: ncols is len(row.find_all("td")), name is cols[0], adj is cols[5]
Rows ==
    {[ncols |-> 0, name |-> NoCell, adj |-> NoCell]}
    \cup {[ncols |-> n, name |-> c, adj |-> NoCell] :
            n \in {1, 5}, c \in {NameCell(<<"Cat">>, "Cat"), NameCell(<<"See ", "Cattle">>, "")}}
    \cup {[ncols |-> 6, name |-> c, adj |-> a] : c \in NameCells, a \in AdjCells}

Tables == UNION {[1..n -> Rows] : n \in 0..MaxRows}

\* Tag.text: every string of the cell, the ones inside <sup> included
CellText(cell) == Concat([i \in 1..Len(cell.nodes) |-> cell.nodes[i].s])

\* (the docstring's "fifth column": cols[4] exists)
HasFifthCell(row) == row.ncols >= 5
\* line 132: cols[5] exists
HasAdjCell(row) == row.ncols >= 6

\* lines 144-149: the row ends at the continue of line 149
ContinuesOnRef(row) == CellText(row.adj) = <<>> /\ SeeSearch(row.name.text).matched

\* (the strings of a cell taken as Tag.text.split("\n") gives them: [""] for a
\* cell without text)
AdjectivesBySplit(cell) ==
    LET kept == SelectSeq(cell.nodes, LAMBDA nd : ~nd.sup /\ Strip(nd.s) # <<>>)
    IN IF kept = <<>> THEN <<"">>
       ELSE [i \in 1..Len(kept) |-> Join(DropParens(Strip(kept[i].s)))]
\* lines 153-158: the strings outside <sup>, stripped, the empty ones left out,
\* each without its parentheses
Adjectives(cell) ==
    LET kept == SelectSeq(cell.nodes, LAMBDA nd : ~nd.sup /\ Strip(nd.s) # <<>>)
    IN [i \in 1..Len(kept) |-> Join(DropParens(Strip(kept[i].s)))]

\* lines 124-160: what one row does; pair is what it yields
RowOutcome(row) ==
    IF row.ncols = 0 THEN [kind |-> "header", pair |-> <<>>]
    ELSE IF ~HasAdjCell(row) THEN [kind |-> "IndexError", pair |-> <<>>]
    ELSE IF CellText(row.adj) = <<"?">> THEN [kind |-> "unknown", pair |-> <<>>]
    ELSE IF row.name.link = "" THEN [kind |-> "ValueError", pair |-> <<>>]
    ELSE IF ContinuesOnRef(row)
    THEN [kind |-> "ref",
          pair |-> <<[k |-> row.name.link,
                      v |-> Ref(Join(SeeSearch(row.name.text).group1))]>>]
    ELSE [kind |-> "adjs",
          pair |-> <<[k |-> row.name.link, v |-> CAs(Adjectives(row.adj))]>>]

Raises(kind) == kind \in {"IndexError", "ValueError"}

\* the generator run to its end: the pairs it yields and the exception that
\* ends it ("none" when it returns)
RECURSIVE ParseFrom(_, _, _)
ParseFrom(tb, i, ps) ==
    IF i > Len(tb) THEN [pairs |-> ps, err |-> "none"]
    ELSE LET o == RowOutcome(tb[i])
         IN IF Raises(o.kind) THEN [pairs |-> ps, err |-> o.kind]
            ELSE ParseFrom(tb, i + 1, ps \o o.pair)

parse_species_table(tb) == ParseFrom(tb, 1, <<>>)

IdleParse ==
    /\ table = <<>>
    /\ ri = 0
    /\ pairs = <<>>
    /\ ppc = "idle"
    /\ perr = "none"
    /\ plog = <<>>

InitParse ==
    /\ table \in Tables
    /\ ri = 1
    /\ pairs = <<>>
    /\ ppc = "rows"
    /\ perr = "none"
    /\ plog = <<>>

\* the row line 123 gives next has outcome kind
NextRowIs(kind) == ppc = "rows" /\ ri <= Len(table) /\ RowOutcome(table[ri]).kind = kind
Logged(kind) == Append(plog, [kind |-> kind, before |-> Len(pairs)])

\* lines 128-129
ParseSkipHeader ==
    /\ NextRowIs("header")
    /\ plog' = Logged("header")
    /\ ri' = ri + 1
    /\ UNCHANGED <<table, pairs, ppc, perr>>
    /\ UNCHANGED notParse

\* line 132: cols[5] of a row of fewer than six cells
ParseIndexError ==
    /\ NextRowIs("IndexError")
    /\ plog' = Logged("IndexError")
    /\ ri' = ri + 1
    /\ ppc' = "raised"
    /\ perr' = "IndexError"
    /\ UNCHANGED <<table, pairs>>
    /\ UNCHANGED notParse

\* lines 134-135
ParseSkipUnknown ==
    /\ NextRowIs("unknown")
    /\ plog' = Logged("unknown")
    /\ ri' = ri + 1
    /\ UNCHANGED <<table, pairs, ppc, perr>>
    /\ UNCHANGED notParse

\* lines 139-141
ParseNoLink ==
    /\ NextRowIs("ValueError")
    /\ plog' = Logged("ValueError")
    /\ ri' = ri + 1
    /\ ppc' = "raised"
    /\ perr' = "ValueError"
    /\ UNCHANGED <<table, pairs>>
    /\ UNCHANGED notParse

\* lines 144-149
ParseYieldRef ==
    /\ NextRowIs("ref")
    /\ plog' = Logged("ref")
    /\ pairs' = pairs \o RowOutcome(table[ri]).pair
    /\ ri' = ri + 1
    /\ UNCHANGED <<table, ppc, perr>>
    /\ UNCHANGED notParse

\* lines 153-160
ParseYieldAdjs ==
    /\ NextRowIs("adjs")
    /\ plog' = Logged("adjs")
    /\ pairs' = pairs \o RowOutcome(table[ri]).pair
    /\ ri' = ri + 1
    /\ UNCHANGED <<table, ppc, perr>>
    /\ UNCHANGED notParse

\* line 123: no row is left
ParseReturn ==
    /\ ppc = "rows"
    /\ ri > Len(table)
    /\ ppc' = "done"
    /\ UNCHANGED <<table, ri, pairs, perr, plog>>
    /\ UNCHANGED notParse

-----------------------------------------------------------------------------
(* batched (src/main.py 252-262) *)

WIKIMEDIA_BATCH_CAP == 49
MaxN == 3           \* the batch sizes tried besides WIKIMEDIA_BATCH_CAP
MaxItems == 7       \* the short iterables tried

\* the sizes n and the lengths of the iterables: the small ones, and the ones
\* around one and two batches of main's n
BatchSizes == (-1..MaxN) \cup {WIKIMEDIA_BATCH_CAP}
IterableLengths ==
    (0..MaxItems) \cup {WIKIMEDIA_BATCH_CAP - 1, WIKIMEDIA_BATCH_CAP, WIKIMEDIA_BATCH_CAP + 1,
                        2 * WIKIMEDIA_BATCH_CAP, 2 * WIKIMEDIA_BATCH_CAP + 1}

\* (islice(it, n + 1))
IsliceOneMore(s, pos, n) == SubSeq(s, pos + 1, Min({pos + n + 1, Len(s)}))
\* line 261: tuple(itertools.islice(it, n)) when it has given its first pos items
Islice(s, pos, n) == SubSeq(s, pos + 1, Min({pos + n, Len(s)}))

\* lines 260-262 from position pos on
RECURSIVE BatchedFrom(_, _, _, _)
BatchedFrom(s, pos, n, acc) ==
    LET batch == Islice(s, pos, n)
    IN IF batch = <<>> THEN acc
       ELSE BatchedFrom(s, pos + Len(batch), n, Append(acc, batch))

\* list(batched(iterable, n)), and the exception raised instead
batched(s, n) ==
    IF n < 1 THEN [batches |-> <<>>, err |-> "ValueError"]
    ELSE [batches |-> BatchedFrom(s, 0, n, <<>>), err |-> "none"]

IdleBatched ==
    /\ b_iterable = <<>>
    /\ b_n = 0
    /\ b_it = 0
    /\ b_batches = <<>>
    /\ bpc = "idle"

InitBatched ==
    /\ \E len \in IterableLengths : b_iterable = [i \in 1..len |-> i]
    /\ b_n \in BatchSizes
    /\ b_it = 0
    /\ b_batches = <<>>
    /\ bpc = "call"

\* lines 258-259
BatchedRaise ==
    /\ bpc = "call"
    /\ b_n < 1
    /\ bpc' = "raised"
    /\ UNCHANGED <<b_iterable, b_n, b_it, b_batches>>
    /\ UNCHANGED notBatched

\* line 260
BatchedIter ==
    /\ bpc = "call"
    /\ b_n >= 1
    /\ bpc' = "loop"
    /\ UNCHANGED <<b_iterable, b_n, b_it, b_batches>>
    /\ UNCHANGED notBatched

\* lines 261-262: the batch is not empty
BatchedYield ==
    /\ bpc = "loop"
    /\ LET batch == Islice(b_iterable, b_it, b_n)
       IN /\ batch # <<>>
          /\ b_batches' = Append(b_batches, batch)
          /\ b_it' = b_it + Len(batch)
    /\ UNCHANGED <<b_iterable, b_n, bpc>>
    /\ UNCHANGED notBatched

\* line 261: the batch is empty
BatchedStop ==
    /\ bpc = "loop"
    /\ Islice(b_iterable, b_it, b_n) = <<>>
    /\ bpc' = "done"
    /\ UNCHANGED <<b_iterable, b_n, b_it, b_batches>>
    /\ UNCHANGED notBatched

-----------------------------------------------------------------------------
(* main (src/main.py 39-62) and the coroutines it gathers *)

MaxThumbs == 2      \* titles of one batch whose page may have a thumbnail

PlainRow(name, adj) ==
    [ncols |-> 6, name |-> NameCell(<<name>>, name), adj |-> AdjCell(<<Str(<<adj>>)>>)]
SeeRow(name, other) ==
    [ncols |-> 6, name |-> NameCell(<<name, " ", "(", "See ", other, ")">>, name),
     adj |-> AdjCell(<<>>)]

\* The sections main may receive: plain rows and a "See" row; a "See" row that
\* stands before a "See" row it refers to; a row of too few cells; and a table
\* of more rows than one request may carry titles.
Sections ==
    { <<[ncols |-> 0, name |-> NoCell, adj |-> NoCell],
        PlainRow("Cattle", "bovine"), SeeRow("Bull", "Cattle"), PlainRow("Cat", "feline")>>,
      <<SeeRow("Bull", "Ox"), SeeRow("Ox", "Cattle"), PlainRow("Cattle", "bovine")>>,
      <<PlainRow("Cat", "feline"), [ncols |-> 5, name |-> NameCell(<<"Cat">>, "Cat"), adj |-> NoCell]>>,
      [i \in 1..WIKIMEDIA_BATCH_CAP + 1 |->
          PlainRow(ToString(i), IF i % 2 = 0 THEN "even" ELSE "odd")] }

\* line 46: animal_to_cas_index.keys()
KeyList(m) == [i \in 1..Len(m) |-> m[i].k]

\* lines 208-211: the dict a thumbnail request returns when the pages in thumbs
\* have a thumbnail; "" stands for None
ThumbnailLinks(titles, thumbs) ==
    [i \in 1..Len(titles) |->
        [k |-> titles[i], v |-> IF titles[i] \in thumbs THEN "url:" \o titles[i] ELSE ""]]

\* the pages that may have a thumbnail
MayHaveThumb(titles) == {titles[i] : i \in 1..Min({MaxThumbs, Len(titles)})}

RECURSIVE join_dicts(_)
\* lines 270-273
join_dicts(dicts) ==
    IF dicts = <<>> THEN <<>>
    ELSE LET n == Len(dicts)
         IN DictOf(join_dicts(SubSeq(dicts, 1, n - 1)) \o dicts[n])

\* lines 47-50 and 53-55: a coroutine that asyncio.gather has yet to finish
Future(arg) == [arg |-> arg, st |-> "pending", result |-> <<>>]

\* (a gather that waits for every awaitable and hands back what raised as a result)
EveryFinished(futures) == \A i \in 1..Len(futures) : futures[i].st # "pending"
\* asyncio.gather returns: every awaitable has returned
EveryDone(futures) == \A i \in 1..Len(futures) : futures[i].st = "done"
\* asyncio.gather raises: an awaitable has raised
SomeFailed(futures) == \E i \in 1..Len(futures) : futures[i].st = "failed"

\* asyncio.run cancels what is left when main has raised
Cancelled(futures) ==
    [i \in 1..Len(futures) |->
        IF futures[i].st = "pending" THEN [futures[i] EXCEPT !.st = "cancelled"]
        ELSE futures[i]]

\* lines 234-244: the rows make_html_result writes
HtmlRows(ca_animals_index, pics) ==
    [i \in 1..Len(ca_animals_index) |->
        [ca |-> ca_animals_index[i].k,
         animals |-> ca_animals_index[i].v,
         pic |-> IF HasKey(pics, ca_animals_index[i].v[1])
                 THEN GetItem(pics, ca_animals_index[i].v[1]) ELSE ""]]

IdleMain ==
    /\ mpc = "idle"
    /\ section = <<>>
    /\ animal_to_cas_index = <<>>
    /\ links_futures = <<>>
    /\ links = <<>>
    /\ pics_futures = <<>>
    /\ pic_index = <<>>
    /\ ca_to_animals_index = <<>>
    /\ out_html = [written |-> FALSE, rows |-> <<>>]
    /\ m_exc = "none"

InitMain ==
    /\ mpc = "fetch_section"
    /\ section = <<>>
    /\ animal_to_cas_index = <<>>
    /\ links_futures = <<>>
    /\ links = <<>>
    /\ pics_futures = <<>>
    /\ pic_index = <<>>
    /\ ca_to_animals_index = <<>>
    /\ out_html = [written |-> FALSE, rows |-> <<>>]
    /\ m_exc = "none"

\* what a raise in main leaves behind
MainRaises(exc) ==
    /\ mpc' = "aborted"
    /\ m_exc' = exc
    /\ links_futures' = Cancelled(links_futures)
    /\ pics_futures' = Cancelled(pics_futures)

\* line 41: the request fails or its answer is malformed
SectionFetchFails ==
    /\ mpc = "fetch_section"
    /\ MainRaises("fetch_section_html")
    /\ UNCHANGED <<section, animal_to_cas_index, links, pic_index,
                   ca_to_animals_index, out_html>>
    /\ UNCHANGED notMain

\* lines 41-43: parse_species_table raises inside dict(...)
SectionParseRaises ==
    /\ mpc = "fetch_section"
    /\ \E tb \in Sections :
        /\ parse_species_table(tb).err # "none"
        /\ section' = tb
        /\ MainRaises(parse_species_table(tb).err)
    /\ UNCHANGED <<animal_to_cas_index, links, pic_index, ca_to_animals_index, out_html>>
    /\ UNCHANGED notMain

\* lines 41-51: the section is parsed and resolved, and one request per batch
\* of titles is handed to asyncio.gather
SectionParsed ==
    /\ mpc = "fetch_section"
    /\ \E tb \in Sections :
        /\ parse_species_table(tb).err = "none"
        /\ section' = tb
        /\ LET ix == resolve_refs(DictOf(parse_species_table(tb).pairs))
               batches == batched(KeyList(ix), WIKIMEDIA_BATCH_CAP).batches
           IN /\ animal_to_cas_index' = ix
              /\ links_futures' = [i \in 1..Len(batches) |-> Future(batches[i])]
    /\ mpc' = "gather_links"
    /\ UNCHANGED <<links, pics_futures, pic_index, ca_to_animals_index, out_html, m_exc>>
    /\ UNCHANGED notMain

\* lines 204-211: one fetch_thumbnails_links returns
ThumbnailsFetched(i) ==
    /\ mpc = "gather_links"
    /\ links_futures[i].st = "pending"
    /\ \E thumbs \in SUBSET MayHaveThumb(links_futures[i].arg) :
        links_futures' = [links_futures EXCEPT
            ![i].st = "done",
            ![i].result = ThumbnailLinks(links_futures[i].arg, thumbs)]
    /\ UNCHANGED <<mpc, section, animal_to_cas_index, links, pics_futures, pic_index,
                   ca_to_animals_index, out_html, m_exc>>
    /\ UNCHANGED notMain

\* lines 190-207: one fetch_thumbnails_links raises
ThumbnailsFetchFails(i) ==
    /\ mpc = "gather_links"
    /\ links_futures[i].st = "pending"
    /\ links_futures' = [links_futures EXCEPT ![i].st = "failed"]
    /\ UNCHANGED <<mpc, section, animal_to_cas_index, links, pics_futures, pic_index,
                   ca_to_animals_index, out_html, m_exc>>
    /\ UNCHANGED notMain

\* lines 51-56: gather returns the dicts, they are joined, and one dl_file
\* per title with a url is handed to asyncio.gather
LinksGathered ==
    /\ mpc = "gather_links"
    /\ EveryDone(links_futures)
    /\ LET joined == join_dicts([i \in 1..Len(links_futures) |-> links_futures[i].result])
           with_url == SelectSeq(joined, LAMBDA e : e.v # "")
       IN /\ links' = joined
          /\ pics_futures' = [i \in 1..Len(with_url) |-> Future(with_url[i])]
    /\ mpc' = "gather_pics"
    /\ UNCHANGED <<section, animal_to_cas_index, links_futures, pic_index,
                   ca_to_animals_index, out_html, m_exc>>
    /\ UNCHANGED notMain

\* lines 51 and 56: gather raises the exception of an awaitable that raised
GatherRaises ==
    /\ mpc \in {"gather_links", "gather_pics"}
    /\ SomeFailed(links_futures \o pics_futures)
    /\ MainRaises("gather")
    /\ UNCHANGED <<section, animal_to_cas_index, links, pic_index,
                   ca_to_animals_index, out_html>>
    /\ UNCHANGED notMain

\* lines 223-227: one dl_file returns
PicDownloaded(i) ==
    /\ mpc = "gather_pics"
    /\ pics_futures[i].st = "pending"
    /\ pics_futures' = [pics_futures EXCEPT
            ![i].st = "done",
            ![i].result = <<[k |-> pics_futures[i].arg.k,
                             v |-> pics_futures[i].arg.k \o ".jpg"]>>]
    /\ UNCHANGED <<mpc, section, animal_to_cas_index, links_futures, links, pic_index,
                   ca_to_animals_index, out_html, m_exc>>
    /\ UNCHANGED notMain

\* lines 224-226: one dl_file raises
PicDownloadFails(i) ==
    /\ mpc = "gather_pics"
    /\ pics_futures[i].st = "pending"
    /\ pics_futures' = [pics_futures EXCEPT ![i].st = "failed"]
    /\ UNCHANGED <<mpc, section, animal_to_cas_index, links_futures, links, pic_index,
                   ca_to_animals_index, out_html, m_exc>>
    /\ UNCHANGED notMain

\* lines 56-60: gather returns the pairs, and invert is called
InvertCalled ==
    /\ mpc = "gather_pics"
    /\ EveryDone(pics_futures)
    /\ pic_index' = DictOf(Concat([i \in 1..Len(pics_futures) |-> pics_futures[i].result]))
    /\ index' = animal_to_cas_index
    /\ inv_i' = 1
    /\ inv_j' = 1
    /\ inv_result' = <<>>
    /\ ipc' = "loop"
    /\ mpc' = "invert"
    /\ UNCHANGED <<section, animal_to_cas_index, links_futures, links, pics_futures,
                   ca_to_animals_index, out_html, m_exc>>
    /\ UNCHANGED <<resolveVars, parseVars, batchedVars>>

\* line 60: invert raises
InvertRaises ==
    /\ mpc = "invert"
    /\ ipc = "raised"
    /\ MainRaises("TypeError")
    /\ UNCHANGED <<section, animal_to_cas_index, links, pic_index,
                   ca_to_animals_index, out_html>>
    /\ UNCHANGED notMain

\* lines 60-62 and 231-232: invert returns; template.html cannot be read
TemplateMissing ==
    /\ mpc = "invert"
    /\ ipc = "done"
    /\ ca_to_animals_index' = inv_result
    /\ MainRaises("FileNotFoundError")
    /\ UNCHANGED <<section, animal_to_cas_index, links, pic_index, out_html>>
    /\ UNCHANGED notMain

\* lines 60-62: invert returns, and make_html_result writes out.html
HtmlWritten ==
    /\ mpc = "invert"
    /\ ipc = "done"
    /\ ca_to_animals_index' = inv_result
    /\ out_html' = [written |-> TRUE, rows |-> HtmlRows(inv_result, pic_index)]
    /\ mpc' = "done"
    /\ UNCHANGED <<section, animal_to_cas_index, links_futures, links, pics_futures,
                   pic_index, m_exc>>
    /\ UNCHANGED notMain

-----------------------------------------------------------------------------
(* The specifications: one per function, each on every input within the     *)
(* bounds, and one of main.                                                 *)

NextResolve == ResolveCopy \/ ResolveSubstitute \/ ResolveDrop \/ ResolveReturn
StartResolve == InitResolve /\ IdleInvert /\ IdleParse /\ IdleBatched /\ IdleMain
SpecResolve == StartResolve /\ [][NextResolve]_vars

NextInvert == InvertAppend \/ InvertNextKey \/ InvertTypeError \/ InvertReturn
StartInvert == IdleResolve /\ InitInvert /\ IdleParse /\ IdleBatched /\ IdleMain
SpecInvert == StartInvert /\ [][NextInvert]_vars

NextParse ==
    \/ ParseSkipHeader
    \/ ParseIndexError
    \/ ParseSkipUnknown
    \/ ParseNoLink
    \/ ParseYieldRef
    \/ ParseYieldAdjs
    \/ ParseReturn
StartParse == IdleResolve /\ IdleInvert /\ InitParse /\ IdleBatched /\ IdleMain
SpecParse == StartParse /\ [][NextParse]_vars

NextBatched == BatchedRaise \/ BatchedIter \/ BatchedYield \/ BatchedStop
StartBatched == IdleResolve /\ IdleInvert /\ IdleParse /\ InitBatched /\ IdleMain
SpecBatched == StartBatched /\ [][NextBatched]_vars

NextMain ==
    \/ SectionFetchFails
    \/ SectionParseRaises
    \/ SectionParsed
    \/ \E i \in 1..Len(links_futures) : ThumbnailsFetched(i)
    \/ \E i \in 1..Len(links_futures) : ThumbnailsFetchFails(i)
    \/ LinksGathered
    \/ GatherRaises
    \/ \E i \in 1..Len(pics_futures) : PicDownloaded(i)
    \/ \E i \in 1..Len(pics_futures) : PicDownloadFails(i)
    \/ InvertCalled
    \/ InvertAppend
    \/ InvertNextKey
    \/ InvertTypeError
    \/ InvertReturn
    \/ InvertRaises
    \/ TemplateMissing
    \/ HtmlWritten
StartMain == IdleResolve /\ IdleInvert /\ IdleParse /\ IdleBatched /\ InitMain
SpecMain == StartMain /\ [][NextMain]_vars

Init == StartMain
Next == NextMain
Spec == Init /\ [][Next]_vars

\* batched on its own inputs, and main, whose requests are its batches
StartRequests == StartBatched \/ StartMain
NextRequests == NextBatched \/ NextMain
SpecRequests == StartRequests /\ [][NextRequests]_vars

-----------------------------------------------------------------------------
(* The claims about resolve_refs, under SpecResolve *)

Entries(m) == 1..Len(m)
IsRefTo(m, i, k) == m[i].v.isRef /\ m[i].v.referral = k
Dangling(m, i) == m[i].v.isRef /\ ~HasKey(m, m[i].v.referral)
RefToList(m, i) ==
    /\ m[i].v.isRef
    /\ HasKey(m, m[i].v.referral)
    /\ ~GetItem(m, m[i].v.referral).isRef

\* C1: when resolve_refs has returned, no value of the returned mapping is a
\* Ref, whatever the unresolved mapping was (chains of Refs, self-references
\* and cycles included, in any key order).
C1_NoRefInResult ==
    rpc = "done" => \A i \in Entries(resolved) : ~resolved[i].v.isRef

\* C2: when every Ref of the unresolved mapping refers to a key whose value is
\* a list, the returned mapping has the same keys in the same order, every
\* list entry has its own list and every Ref entry the list at its referral
\* key; so a mapping without Refs is returned unchanged.
C2_SingleHopResolved ==
    (rpc = "done" /\ \A i \in Entries(r_input) : r_input[i].v.isRef => RefToList(r_input, i))
    => /\ Len(resolved) = Len(r_input)
       /\ \A i \in Entries(r_input) :
            /\ resolved[i].k = r_input[i].k
            /\ resolved[i].v = IF r_input[i].v.isRef
                               THEN GetItem(r_input, r_input[i].v.referral)
                               ELSE r_input[i].v
       /\ ((\A i \in Entries(r_input) : ~r_input[i].v.isRef) => resolved = r_input)

\* a single-hop mapping whose first entry refers to a later one has been resolved
C2_Witness ==
    /\ rpc = "done"
    /\ Len(r_input) = 3
    /\ \A i \in Entries(r_input) : r_input[i].v.isRef => RefToList(r_input, i)
    /\ IsRefTo(r_input, 1, r_input[3].k)
    /\ IsRefTo(r_input, 2, r_input[3].k)
    /\ resolved[1].v = r_input[3].v

\* C3: resolve_refs raises nothing; an entry that is a Ref to a key the mapping
\* does not have is not in the returned mapping, and the other entries are
\* still processed: a list entry is returned with its list, a Ref to a key that
\* holds a list is returned with that list; {"b": Ref("missing")} gives {}.
C3_DanglingRefDropped ==
    /\ rpc # "raised"
    /\ rpc = "done" =>
        /\ \A i \in Entries(r_input) :
            /\ Dangling(r_input, i) => ~HasKey(resolved, r_input[i].k)
            /\ ~r_input[i].v.isRef =>
                 HasKey(resolved, r_input[i].k) /\ GetItem(resolved, r_input[i].k) = r_input[i].v
            /\ RefToList(r_input, i) =>
                 /\ HasKey(resolved, r_input[i].k)
                 /\ GetItem(resolved, r_input[i].k) = GetItem(r_input, r_input[i].v.referral)
        /\ r_input = <<[k |-> "b", v |-> Ref("missing")]>> => resolved = <<>>

\* a dangling Ref stood before a Ref to a list: the first is dropped, the second resolved
C3_Witness ==
    /\ rpc = "done"
    /\ Len(r_input) = 3
    /\ Dangling(r_input, 1)
    /\ RefToList(r_input, 2)
    /\ Len(resolved) = 2
    /\ ~resolved[1].v.isRef

RECURSIVE Followed(_, _, _)
\* the end of the chain of referrals from key k: the list it reaches, or
\* nothing when it reaches a missing key or a key in visited
Followed(m, k, visited) ==
    IF ~HasKey(m, k) \/ k \in visited THEN [found |-> FALSE, v |-> CAs(<<>>)]
    ELSE IF ~GetItem(m, k).isRef THEN [found |-> TRUE, v |-> GetItem(m, k)]
    ELSE Followed(m, GetItem(m, k).referral, visited \cup {k})

\* C4: chains of Refs are resolved transitively, in any key order: an entry
\* whose chain ends at a list is returned with that list, an entry whose chain
\* reaches a missing key or comes back to a key is not returned.
C4_ChainsResolved ==
    rpc = "done" =>
        \A i \in Entries(r_input) :
            LET end == Followed(r_input, r_input[i].k, {})
            IN IF end.found
               THEN HasKey(resolved, r_input[i].k) /\ GetItem(resolved, r_input[i].k) = end.v
               ELSE ~HasKey(resolved, r_input[i].k)

\* C8: the caller's mapping is never changed by resolve_refs: same keys, same
\* key order, same values as when it was passed.
C8_ArgumentUnchanged == heap.arg = r_input

\* resolve_refs has dropped an entry and substituted another
C8_Witness ==
    /\ rpc = "done"
    /\ Len(resolved) < Len(r_input)
    /\ \E i \in Entries(r_input) :
        /\ r_input[i].v.isRef
        /\ HasKey(resolved, r_input[i].k)
        /\ ~GetItem(resolved, r_input[i].k).isRef

-----------------------------------------------------------------------------
(* The claim about invert, under SpecInvert *)

\* the keys of index whose list holds u, and the place of u's first visit
HoldsValue(i, u) == \E j \in 1..Len(index[i].v.list) : index[i].v.list[j] = u
FirstVisit(u) ==
    LET i == Min({n \in Entries(index) : HoldsValue(n, u)})
    IN <<i, Min({j \in 1..Len(index[i].v.list) : index[i].v.list[j] = u})>>
VisitedBefore(p, q) == p[1] < q[1] \/ (p[1] = q[1] /\ p[2] < q[2])

\* C5: when invert has returned, its result has one bucket per value of the
\* lists, the buckets stand in the order in which their values were first
\* visited (keys in insertion order, values in list order), each bucket holds
\* the keys in visit order, and key K stands in the bucket of V as many times
\* as V stands in the list of K; invert({"a": ["x", "y"], "b": ["x"]}) is
\* {"x": ["a", "b"], "y": ["a"]}.
C5_InvertedInVisitOrder ==
    ipc = "done" =>
        /\ IsDict(inv_result)
        /\ DictKeys(inv_result) = {u \in InvertValues : \E i \in Entries(index) : HoldsValue(i, u)}
        /\ \A p, q \in Entries(inv_result) :
             p < q => VisitedBefore(FirstVisit(inv_result[p].k), FirstVisit(inv_result[q].k))
        /\ \A b \in Entries(inv_result) :
             LET bucket == inv_result[b].v
             IN /\ \A i \in Entries(index) :
                     Count(bucket, index[i].k) = Count(index[i].v.list, inv_result[b].k)
                /\ \A p, q \in 1..Len(bucket) :
                     p < q => KeyIndex(index, bucket[p]) <= KeyIndex(index, bucket[q])
                /\ \A p \in 1..Len(bucket) : HasKey(index, bucket[p])
        /\ index = <<[k |-> "a", v |-> CAs(<<"x", "y">>)], [k |-> "b", v |-> CAs(<<"x">>)]>>
             => inv_result = <<[k |-> "x", v |-> <<"a", "b">>], [k |-> "y", v |-> <<"a">>]>>

\* invert has returned on an index in which a pair stands twice
C5_Witness ==
    /\ ipc = "done"
    /\ index = <<[k |-> "a", v |-> CAs(<<"y", "x">>)], [k |-> "b", v |-> CAs(<<"x", "x">>)]>>
    /\ inv_result = <<[k |-> "y", v |-> <<"a">>], [k |-> "x", v |-> <<"a", "b", "b">>]>>

-----------------------------------------------------------------------------
(* The claims about parse_species_table, under SpecParse *)

\* the rows the generator has gone through
Parsed == 1..Len(plog)
\* what the generator had yielded when it left row i
YieldedAfter(i) == IF i < Len(plog) THEN plog[i + 1].before ELSE Len(pairs)
\* a row of six cells or more, its adjective cell without text, its name cell
\* without a "See <name>"
EmptyWithoutSee(row) ==
    /\ row.ncols >= 6
    /\ CellText(row.adj) = <<>>
    /\ ~SeeSearch(row.name.text).matched

-----------------------------------------------------------------------------
(* The claim about batched and the requests of main, under SpecRequests *)

\* main has handed its requests to asyncio.gather
Requested ==
    /\ mpc \notin {"idle", "fetch_section"}
    /\ m_exc \notin {"fetch_section_html", "IndexError", "ValueError"}
\* the requests whose titles hold animal k
RequestsOf(k) ==
    {i \in Entries(links_futures) :
        \E j \in 1..Len(links_futures[i].arg) : links_futures[i].arg[j] = k}

\* C9: when batched has ended on n >= 1, its batches one after the other are
\* the input, no batch is empty, every batch but the last has n items and the
\* last at most n; for n < 1 it raises ValueError and yields nothing; and in
\* main every key of the resolved mapping is a title of exactly one request,
\* no request having more than WIKIMEDIA_BATCH_CAP titles.
C9_BatchesPartitionInput ==
    /\ bpc = "done" =>
        /\ b_n >= 1
        /\ Concat(b_batches) = b_iterable
        /\ \A i \in Entries(b_batches) :
            /\ b_batches[i] # <<>>
            /\ Len(b_batches[i]) <= b_n
            /\ i < Len(b_batches) => Len(b_batches[i]) = b_n
    /\ bpc = "raised" => b_n < 1 /\ b_batches = <<>>
    /\ b_n < 1 => bpc \in {"idle", "call", "raised"}
    /\ Requested =>
        /\ \A i \in Entries(animal_to_cas_index) :
             Cardinality(RequestsOf(animal_to_cas_index[i].k)) = 1
        /\ \A i \in Entries(links_futures) :
            /\ Len(links_futures[i].arg) <= WIKIMEDIA_BATCH_CAP
            /\ \A j \in 1..Len(links_futures[i].arg) :
                 /\ HasKey(animal_to_cas_index, links_futures[i].arg[j])
                 /\ Count(links_futures[i].arg, links_futures[i].arg[j]) = 1

\* batched has ended on main's n and an input of two batches and one item more
C9_Witness ==
    /\ bpc = "done"
    /\ b_n = WIKIMEDIA_BATCH_CAP
    /\ Len(b_iterable) = 2 * WIKIMEDIA_BATCH_CAP + 1
    /\ Len(b_batches) = 3
    /\ Len(b_batches[3]) = 1

-----------------------------------------------------------------------------
(* The claim about main, under Spec *)

Fetches == links_futures \o pics_futures
AllReturned(futures) == \A i \in Entries(futures) : futures[i].st = "done"
InvertStarted == mpc \in {"invert", "done"} \/ ipc # "idle"

\* C10: in every interleaving, a download exists only when every thumbnail
\* request has returned and links is the join of their results; invert and
\* make_html_result start only when every download has returned; and once a
\* fetch has failed, main can only raise: out.html is not written.
C10_JoinBeforeNextStage ==
    /\ (pics_futures # <<>> \/ links # <<>> \/ mpc \in {"gather_pics", "invert", "done"}) =>
        /\ AllReturned(links_futures)
        /\ links = join_dicts([i \in Entries(links_futures) |-> links_futures[i].result])
    /\ (InvertStarted \/ pic_index # <<>> \/ out_html.written) =>
        /\ AllReturned(links_futures)
        /\ AllReturned(pics_futures)
        /\ pic_index = DictOf(Concat([i \in Entries(pics_futures) |-> pics_futures[i].result]))
    /\ (SomeFailed(Fetches) \/ m_exc # "none") =>
        /\ ~out_html.written
        /\ mpc \in {"gather_links", "gather_pics", "aborted"}
        /\ ~InvertStarted \/ m_exc \in {"TypeError", "FileNotFoundError"}
        /\ mpc # "aborted" => ENABLED GatherRaises /\ ~ENABLED LinksGathered /\ ~ENABLED InvertCalled
    /\ SomeFailed(links_futures) => pics_futures = <<>>

\* out.html is written after two thumbnail requests and two downloads
C10_Witness ==
    /\ mpc = "done"
    /\ out_html.written
    /\ Len(links_futures) = 2
    /\ Len(pics_futures) = 2
    /\ Len(out_html.rows) = 2


====
